---- MODULE Spec2Model ----
(***************************************************************************)
(* Model of AppsRunner (runner.go): registration of applications and      *)
(* shutdown hooks, and Run with its goroutines: one start task per         *)
(* application, the graceful-shutdown goroutine, the signal goroutine and  *)
(* the calling goroutine that waits on the errgroup.                       *)
(*                                                                         *)
(* Every goroutine is a process with a program counter; one action is one  *)
(* step between two points at which another goroutine can observe or       *)
(* change shared state (the context, started[], the errgroup's error, the  *)
(* signal channel, the logger).                                            *)
(*                                                                         *)
(* A signal that arrives before signal.Notify has run has the default      *)
(* disposition (the process terminates and Run yields no result); only     *)
(* signals arriving after the subscription are modelled.                   *)
(***************************************************************************)
EXTENDS Integers, Sequences, FiniteSets, TLC

\* ---- bounds ----
MaxApps == 2          \* registry entries (applications and hooks together)
MaxSignals == 1       \* signals delivered to the process during one run

\* ---- program constants ----
SigCap == 2           \* len(sig): capacity of the signal channel

\* ---- error values ----
Nil == <<"nil", 0>>
ErrInterruptedBySignal == <<"ErrInterruptedBySignal", 0>>
StartError(i) == <<"start error", i>>
StopError(i) == <<"stop error", i>>

\* ---- log events: <<message, app index (0 = none), error (Nil = none)>> ----
LogEvent(msg, i, e) == <<msg, i, e>>

VARIABLES
    apps,           \* r.apps: sequence of [hook, startErr, stopErr]
    mainPc,         \* position of the goroutine that calls Run
    mainIdx,        \* index of the start loop (line 81)
    result,         \* value returned by Run
    callerDone,     \* the caller's context is cancelled / past its deadline
    cancelCalled,   \* cancel() of the WithCancel context has been called
    egErr,          \* errgroup: first non-nil error returned by a task
    started,        \* started[i] flags (line 78)
    startPc,        \* position of each start goroutine
    shPc,           \* position of the graceful-shutdown goroutine
    shIdx,          \* its loop index
    shErr,          \* its local err
    sigPc,          \* position of the signal goroutine
    chLen,          \* signals buffered in ch
    sent,           \* signals delivered so far
    logger,         \* r.logger: the Logger handed to New
    log,            \* sequence of logger calls that were recorded
    startCalls,     \* number of calls of each Start
    stopCalls,      \* number of calls of each Stop / hook
    stopOrder,      \* indices in the order their Stop / hook was called
    stopReturned,   \* number of Stop / hook calls that have returned
    atFailure       \* history: {0} and the indices with started[i] set at the
                    \* moment a failed start task cancelled the shared
                    \* context; {} while no start task has cancelled it

vars == <<apps, mainPc, mainIdx, result, callerDone, cancelCalled, egErr,
          started, startPc, shPc, shIdx, shErr, sigPc, chLen, sent,
          logger, log, startCalls, stopCalls, stopOrder, stopReturned,
          atFailure>>

N == Len(apps)
\* indices of the entries of the current run (empty before Run begins)
Idx == DOMAIN started

\* a.Start == nil marks a shutdown hook (lines 82, 124)
IsHook(i) == apps[i].hook

\* As CtxDone, but the context counts as done from the start (the wait on
\* ctx.Done() has no effect).
CtxDone_Always == TRUE

\* ctx.Done() of the errgroup context is closed: the caller's context is done,
\* cancel() was called, or the errgroup recorded an error.
CtxDone == callerDone \/ cancelCalled \/ egErr # Nil

\* errgroup.Group.Go: the first non-nil error returned by a task is kept.
EgReturn(e) == IF e # Nil /\ egErr = Nil THEN e ELSE egErr

\* New(logger): an empty registry and the given logger.  A "recording" logger
\* keeps every call in log; a "discarding" one returns without any effect.
New(l) ==
    /\ logger = l
    /\ apps = <<>>
    /\ mainPc = "register"
    /\ mainIdx = 0
    /\ result = Nil
    /\ callerDone = FALSE
    /\ cancelCalled = FALSE
    /\ egErr = Nil
    /\ started = <<>>
    /\ startPc = <<>>
    /\ shPc = "none"
    /\ shIdx = 0
    /\ shErr = Nil
    /\ sigPc = "none"
    /\ chLen = 0
    /\ sent = 0
    /\ log = <<>>
    /\ startCalls = <<>>
    /\ stopCalls = <<>>
    /\ stopOrder = <<>>
    /\ stopReturned = 0
    /\ atFailure = {}

Init == New("recording")

\* one logger call / a sequence of logger calls
Logged(e) == IF logger = "recording" THEN Append(log, e) ELSE log
LoggedAll(es) == IF logger = "recording" THEN log \o es ELSE log

runVars == <<mainIdx, result, callerDone, cancelCalled, egErr, started,
             startPc, shPc, shIdx, shErr, sigPc, chLen, sent, log,
             startCalls, stopCalls, stopOrder, stopReturned, atFailure>>

\* The outcomes of an application's Start and Stop.  The Stop of an
\* application whose Start fails is given the outcome nil.
AppOutcomes == {<<FALSE, FALSE>>, <<FALSE, TRUE>>, <<TRUE, FALSE>>}

\* RegisterApp / RegisterNamedApp: append an application whose Start and Stop
\* return the given outcomes.
RegisterNamedApp(startFails, stopFails) ==
    /\ mainPc = "register"
    /\ Len(apps) < MaxApps
    /\ apps' = Append(apps, [hook |-> FALSE, startErr |-> startFails,
                             stopErr |-> stopFails])
    /\ UNCHANGED logger
    /\ UNCHANGED <<mainPc, runVars>>

\* RegisterShutdownHook: a nil callback is ignored, any other is appended
\* with Start = nil.
RegisterShutdownHook(isNil, stopFails) ==
    /\ mainPc = "register"
    /\ Len(apps) < MaxApps
    /\ apps' = IF isNil THEN apps
               ELSE Append(apps, [hook |-> TRUE, startErr |-> FALSE,
                                  stopErr |-> stopFails])
    /\ UNCHANGED logger
    /\ UNCHANGED <<mainPc, runVars>>

\* Run, lines 69-78: derive the contexts, create the errgroup and started[].
RunBegin ==
    /\ mainPc = "register"
    /\ mainPc' = "loop"
    /\ mainIdx' = 1
    /\ started' = [i \in 1..N |-> FALSE]
    /\ startPc' = [i \in 1..N |-> "none"]
    /\ startCalls' = [i \in 1..N |-> 0]
    /\ stopCalls' = [i \in 1..N |-> 0]
    /\ UNCHANGED logger
    /\ UNCHANGED <<apps, result, callerDone, cancelCalled, egErr, shPc, shIdx,
                   shErr, sigPc, chLen, sent, log, stopOrder, stopReturned,
                   atFailure>>

\* One iteration of the start loop, lines 81-102.
MainLoop ==
    /\ mainPc = "loop"
    /\ mainIdx <= N
    /\ mainIdx' = mainIdx + 1
    /\ IF IsHook(mainIdx)
       THEN UNCHANGED <<log, startPc>>
       ELSE /\ log' = Logged(LogEvent("start application", mainIdx, Nil))
            /\ startPc' = [startPc EXCEPT ![mainIdx] = "launched"]
    /\ UNCHANGED logger
    /\ UNCHANGED <<apps, mainPc, result, callerDone, cancelCalled, egErr,
                   started, shPc, shIdx, shErr, sigPc, chLen, sent,
                   startCalls, stopCalls, stopOrder, stopReturned,
                   atFailure>>

\* eg.Go of the graceful-shutdown goroutine, line 105.
MainSpawnShutdown ==
    /\ mainPc = "loop"
    /\ mainIdx > N
    /\ mainPc' = "spawnSignal"
    /\ shPc' = "waiting"
    /\ UNCHANGED logger
    /\ UNCHANGED <<apps, mainIdx, result, callerDone, cancelCalled, egErr,
                   started, startPc, shIdx, shErr, sigPc, chLen, sent, log,
                   startCalls, stopCalls, stopOrder, stopReturned,
                   atFailure>>

\* eg.Go of the signal goroutine, line 137.
MainSpawnSignal ==
    /\ mainPc = "spawnSignal"
    /\ mainPc' = "wait"
    /\ sigPc' = "spawned"
    /\ UNCHANGED logger
    /\ UNCHANGED <<apps, mainIdx, result, callerDone, cancelCalled, egErr,
                   started, startPc, shPc, shIdx, shErr, chLen, sent, log,
                   startCalls, stopCalls, stopOrder, stopReturned,
                   atFailure>>

\* ---- start goroutine of application i, lines 89-101 ----

\* a.Start() is entered (line 90).
TaskCallStart(i) ==
    /\ startPc[i] = "launched"
    /\ startPc' = [startPc EXCEPT ![i] = "inStart"]
    /\ startCalls' = [startCalls EXCEPT ![i] = @ + 1]
    /\ UNCHANGED logger
    /\ UNCHANGED <<apps, mainPc, mainIdx, result, callerDone, cancelCalled,
                   egErr, started, shPc, shIdx, shErr, sigPc, chLen, sent,
                   log, stopCalls, stopOrder, stopReturned,
                   atFailure>>

\* a.Start() returns (lines 90-98): on an error "application finished" is
\* logged; on success started[i] is set.  The return of Start touches nothing
\* shared, so it forms one step with the statement that follows it.
TaskStartReturns(i) ==
    /\ startPc[i] = "inStart"
    /\ IF apps[i].startErr
       THEN /\ startPc' = [startPc EXCEPT ![i] = "failed"]
            /\ log' = Logged(LogEvent("application finished", i,
                                           StartError(i)))
            /\ UNCHANGED started
       ELSE /\ startPc' = [startPc EXCEPT ![i] = "marked"]
            /\ started' = [started EXCEPT ![i] = TRUE]
            /\ UNCHANGED log
    /\ UNCHANGED logger
    /\ UNCHANGED <<apps, mainPc, mainIdx, result, callerDone, cancelCalled,
                   egErr, shPc, shIdx, shErr, sigPc, chLen, sent,
                   startCalls, stopCalls, stopOrder, stopReturned,
                   atFailure>>

\* cancel() after a failed Start (line 93).
TaskCancel(i) ==
    /\ startPc[i] = "failed"
    /\ startPc' = [startPc EXCEPT ![i] = "cancelled"]
    /\ cancelCalled' = TRUE
    /\ atFailure' = IF CtxDone THEN atFailure
                    ELSE {0} \cup {j \in Idx : started[j]}
    /\ UNCHANGED logger
    /\ UNCHANGED <<apps, mainPc, mainIdx, result, callerDone, egErr, started,
                   shPc, shIdx, shErr, sigPc, chLen, sent, log, startCalls,
                   stopCalls, stopOrder, stopReturned>>

\* return err (line 94): the errgroup records it unless it already holds one.
TaskReturnErr(i) ==
    /\ startPc[i] = "cancelled"
    /\ startPc' = [startPc EXCEPT ![i] = "done"]
    /\ egErr' = EgReturn(StartError(i))
    /\ UNCHANGED logger
    /\ UNCHANGED <<apps, mainPc, mainIdx, result, callerDone, cancelCalled,
                   started, shPc, shIdx, shErr, sigPc, chLen, sent, log,
                   startCalls, stopCalls, stopOrder, stopReturned,
                   atFailure>>

\* "application started" is logged and the task returns nil (lines 99-100).
TaskReturnNil(i) ==
    /\ startPc[i] = "marked"
    /\ startPc' = [startPc EXCEPT ![i] = "done"]
    /\ log' = Logged(LogEvent("application started", i, Nil))
    /\ egErr' = EgReturn(Nil)
    /\ UNCHANGED logger
    /\ UNCHANGED <<apps, mainPc, mainIdx, result, callerDone, cancelCalled,
                   started, shPc, shIdx, shErr, sigPc, chLen, sent,
                   startCalls, stopCalls, stopOrder, stopReturned,
                   atFailure>>

\* ---- graceful-shutdown goroutine, lines 105-134 ----

\* <-ctx.Done() (line 106)
ShutdownWake ==
    /\ shPc = "waiting"
    /\ CtxDone
    /\ shPc' = "stops"
    /\ shIdx' = 1
    /\ UNCHANGED logger
    /\ UNCHANGED <<apps, mainPc, mainIdx, result, callerDone, cancelCalled,
                   egErr, started, startPc, shErr, sigPc, chLen, sent, log,
                   startCalls, stopCalls, stopOrder, stopReturned,
                   atFailure>>

\* As SkipStop, but the test is made on applications only, so that a hook
\* falls through to the call of Stop in the first loop.
SkipStop_AppsOnly(i) == ~IsHook(i) /\ ~started[i]

\* As SkipStop, but the test is a.Start == nil: every application is stopped,
\* started or not.
SkipStop_HooksOnly(i) == IsHook(i)

\* As SkipStop, with the test of started[i] inverted.
SkipStop_Inverted(i) == started[i]

\* As SkipStop, but once a Stop has failed the remaining entries are passed
\* over.
SkipStop_AfterError(i) == ~started[i] \/ shErr # Nil

\* The condition of line 111: the entry is passed over.  Every registered
\* entry has a non-nil Stop, so only started[i] decides.  The read is not
\* synchronised with the write of line 98: it yields the old or the new value
\* according to the order in which the two steps are taken.
SkipStop(i) == ~started[i]

\* As CallHook, but a hook is called only when its started flag is set.
CallHook_OnlyStarted(i) == IsHook(i) /\ started[i]

\* As CallHook, but the test is a.Stop != nil alone: the second loop calls
\* the Stop of every entry.
CallHook_AnyStop(i) == TRUE

\* The condition of line 124: the entry is a shutdown hook.
CallHook(i) == IsHook(i)

\* One iteration of the first loop up to the call of a.Stop (lines 110-116).
ShutdownInspect ==
    /\ shPc = "stops"
    /\ shIdx <= N
    /\ IF SkipStop(shIdx)
       THEN /\ shIdx' = shIdx + 1
            /\ UNCHANGED <<shPc, log, stopCalls, stopOrder,
                   atFailure>>
       ELSE /\ shPc' = "inStop"
            /\ log' = Logged(LogEvent("stop application", shIdx, Nil))
            /\ stopCalls' = [stopCalls EXCEPT ![shIdx] = @ + 1]
            /\ stopOrder' = Append(stopOrder, shIdx)
            /\ UNCHANGED shIdx
    /\ UNCHANGED logger
    /\ UNCHANGED <<apps, mainPc, mainIdx, result, callerDone, cancelCalled,
                   egErr, started, startPc, shErr, sigPc, chLen, sent,
                   startCalls, stopReturned,
                   atFailure>>

\* a.Stop() returns (lines 116-119).
ShutdownStopReturns ==
    /\ shPc = "inStop"
    /\ shPc' = "stops"
    /\ shIdx' = shIdx + 1
    /\ stopReturned' = stopReturned + 1
    /\ IF apps[shIdx].stopErr
       THEN /\ log' = Logged(LogEvent("application stop error", shIdx,
                                           StopError(shIdx)))
            /\ shErr' = StopError(shIdx)
       ELSE UNCHANGED <<log, shErr>>
    /\ UNCHANGED logger
    /\ UNCHANGED <<apps, mainPc, mainIdx, result, callerDone, cancelCalled,
                   egErr, started, startPc, sigPc, chLen, sent, startCalls,
                   stopCalls, stopOrder,
                   atFailure>>

\* The first loop is finished; the second loop begins (line 123).
ShutdownBeginHooks ==
    /\ shPc = "stops"
    /\ shIdx > N
    /\ shPc' = "hooks"
    /\ shIdx' = 1
    /\ UNCHANGED logger
    /\ UNCHANGED <<apps, mainPc, mainIdx, result, callerDone, cancelCalled,
                   egErr, started, startPc, shErr, sigPc, chLen, sent, log,
                   startCalls, stopCalls, stopOrder, stopReturned,
                   atFailure>>

\* One iteration of the second loop up to the call of the hook
\* (lines 123-126).
ShutdownInspectHook ==
    /\ shPc = "hooks"
    /\ shIdx <= N
    /\ IF CallHook(shIdx)
       THEN /\ shPc' = "inHook"
            /\ log' = Logged(LogEvent("calling shutdown hook", shIdx, Nil))
            /\ stopCalls' = [stopCalls EXCEPT ![shIdx] = @ + 1]
            /\ stopOrder' = Append(stopOrder, shIdx)
            /\ UNCHANGED shIdx
       ELSE /\ shIdx' = shIdx + 1
            /\ UNCHANGED <<shPc, log, stopCalls, stopOrder,
                   atFailure>>
    /\ UNCHANGED logger
    /\ UNCHANGED <<apps, mainPc, mainIdx, result, callerDone, cancelCalled,
                   egErr, started, startPc, shErr, sigPc, chLen, sent,
                   startCalls, stopReturned,
                   atFailure>>

\* The hook returns (lines 126-129).
ShutdownHookReturns ==
    /\ shPc = "inHook"
    /\ shPc' = "hooks"
    /\ shIdx' = shIdx + 1
    /\ stopReturned' = stopReturned + 1
    /\ IF apps[shIdx].stopErr
       THEN /\ log' = Logged(LogEvent("shutdown hook error", shIdx,
                                           StopError(shIdx)))
            /\ shErr' = StopError(shIdx)
       ELSE UNCHANGED <<log, shErr>>
    /\ UNCHANGED logger
    /\ UNCHANGED <<apps, mainPc, mainIdx, result, callerDone, cancelCalled,
                   egErr, started, startPc, sigPc, chLen, sent, startCalls,
                   stopCalls, stopOrder,
                   atFailure>>

\* return err (line 133).
ShutdownReturn ==
    /\ shPc = "hooks"
    /\ shIdx > N
    /\ shPc' = "done"
    /\ egErr' = EgReturn(shErr)
    /\ UNCHANGED logger
    /\ UNCHANGED <<apps, mainPc, mainIdx, result, callerDone, cancelCalled,
                   started, startPc, shIdx, shErr, sigPc, chLen, sent, log,
                   startCalls, stopCalls, stopOrder, stopReturned,
                   atFailure>>

\* ---- signal goroutine, lines 137-149 ----

\* signal.Notify(ch, SIGTERM, SIGINT) (lines 138-140).
SignalNotify ==
    /\ sigPc = "spawned"
    /\ sigPc' = "select"
    /\ UNCHANGED logger
    /\ UNCHANGED <<apps, mainPc, mainIdx, result, callerDone, cancelCalled,
                   egErr, started, startPc, shPc, shIdx, shErr, chLen, sent,
                   log, startCalls, stopCalls, stopOrder, stopReturned,
                   atFailure>>

\* case <-ch: cancel() (lines 143-144).
SignalReceive ==
    /\ sigPc = "select"
    /\ chLen > 0
    /\ chLen' = chLen - 1
    /\ sigPc' = "interrupted"
    /\ cancelCalled' = TRUE
    /\ UNCHANGED logger
    /\ UNCHANGED <<apps, mainPc, mainIdx, result, callerDone, egErr, started,
                   startPc, shPc, shIdx, shErr, sent, log, startCalls,
                   stopCalls, stopOrder, stopReturned,
                   atFailure>>

\* return ErrInterruptedBySignal (line 145).
SignalReturnInterrupted ==
    /\ sigPc = "interrupted"
    /\ sigPc' = "returnedInterrupted"
    /\ egErr' = EgReturn(ErrInterruptedBySignal)
    /\ UNCHANGED logger
    /\ UNCHANGED <<apps, mainPc, mainIdx, result, callerDone, cancelCalled,
                   started, startPc, shPc, shIdx, shErr, chLen, sent, log,
                   startCalls, stopCalls, stopOrder, stopReturned,
                   atFailure>>

\* As SignalCtxDoneReturn, but the context's error is returned.
SignalCtxDoneReturn_CtxErr == <<"context canceled", 0>>

\* The value the signal goroutine returns when the context is done (line 147).
SignalCtxDoneReturn == Nil

\* case <-ctx.Done(): return nil (lines 146-147).
SignalCtxDone ==
    /\ sigPc = "select"
    /\ CtxDone
    /\ sigPc' = "returnedNil"
    /\ egErr' = EgReturn(SignalCtxDoneReturn)
    /\ UNCHANGED logger
    /\ UNCHANGED <<apps, mainPc, mainIdx, result, callerDone, cancelCalled,
                   started, startPc, shPc, shIdx, shErr, chLen, sent, log,
                   startCalls, stopCalls, stopOrder, stopReturned,
                   atFailure>>

\* ---- eg.Wait and the result of Run, lines 151-161 ----

\* As AllTasksDone, but the signal goroutine is not waited for.
AllTasksDone_NoSignalWait ==
    /\ \A i \in Idx : startPc[i] \in {"none", "done"}
    /\ shPc = "done"

\* wg.Wait(): every goroutine of the group has returned.
AllTasksDone ==
    /\ \A i \in Idx : startPc[i] \in {"none", "done"}
    /\ shPc = "done"
    /\ sigPc \in {"returnedInterrupted", "returnedNil"}

\* As RunResult, without the test for ErrInterruptedBySignal.
RunResult_NoSentinelTest(err) == err

\* The value Run returns for the error of eg.Wait (lines 151-161).
RunResult(err) ==
    IF err # Nil /\ err # ErrInterruptedBySignal THEN err ELSE Nil

\* As RunLog, without the branch for ErrInterruptedBySignal.
RunLog_NoSentinelBranch(err) ==
    IF err = Nil THEN <<LogEvent("application was stopped", 0, Nil)>>
    ELSE <<LogEvent("terminating with error", 0, err)>>

\* As RunLog, without the return of line 156: after "terminating with
\* error" the final event is logged as well.
RunLog_NoReturn(err) ==
    IF err = Nil THEN <<LogEvent("application was stopped", 0, Nil)>>
    ELSE IF err = ErrInterruptedBySignal
         THEN <<LogEvent("shutting down by signal", 0, Nil),
                LogEvent("application was stopped", 0, Nil)>>
         ELSE <<LogEvent("terminating with error", 0, err),
                LogEvent("application was stopped", 0, Nil)>>

\* The events Run logs for the error of eg.Wait (lines 151-160).
RunLog(err) ==
    IF err = Nil THEN <<LogEvent("application was stopped", 0, Nil)>>
    ELSE IF err = ErrInterruptedBySignal
         THEN <<LogEvent("shutting down by signal", 0, Nil),
                LogEvent("application was stopped", 0, Nil)>>
         ELSE <<LogEvent("terminating with error", 0, err)>>

\* eg.Wait() returns, Run logs and returns; the deferred cancel() runs.
MainWait ==
    /\ mainPc = "wait"
    /\ AllTasksDone
    /\ mainPc' = "returned"
    /\ result' = RunResult(egErr)
    /\ log' = LoggedAll(RunLog(egErr))
    /\ cancelCalled' = TRUE
    /\ UNCHANGED logger
    /\ UNCHANGED <<apps, mainIdx, callerDone, egErr, started, startPc, shPc,
                   shIdx, shErr, sigPc, chLen, sent, startCalls, stopCalls,
                   stopOrder, stopReturned,
                   atFailure>>

\* ---- environment ----

Running == mainPc \in {"loop", "spawnSignal", "wait"}

\* SIGTERM or SIGINT is delivered to the process while the signal goroutine
\* waits in its select; signal.Notify drops it when ch is full.  (A signal
\* delivered after the goroutine has left the select stays unread in ch and
\* changes nothing that Run observes.)
SignalArrives ==
    /\ Running
    /\ sigPc = "select"
    /\ sent < MaxSignals
    /\ sent' = sent + 1
    /\ chLen' = IF chLen < SigCap THEN chLen + 1 ELSE chLen
    /\ UNCHANGED logger
    /\ UNCHANGED <<apps, mainPc, mainIdx, result, callerDone, cancelCalled,
                   egErr, started, startPc, shPc, shIdx, shErr, sigPc, log,
                   startCalls, stopCalls, stopOrder, stopReturned,
                   atFailure>>

\* The caller cancels the context passed to Run, or its deadline expires,
\* and thereby cancels the shared context.  (Cancellation is idempotent: on
\* a context that is already done it changes nothing that Run observes.)
CallerCancel ==
    /\ Running
    /\ ~CtxDone
    /\ callerDone' = TRUE
    /\ UNCHANGED logger
    /\ UNCHANGED <<apps, mainPc, mainIdx, result, cancelCalled, egErr,
                   started, startPc, shPc, shIdx, shErr, sigPc, chLen, sent,
                   log, startCalls, stopCalls, stopOrder, stopReturned,
                   atFailure>>

Next ==
    \/ \E o \in AppOutcomes : RegisterNamedApp(o[1], o[2])
    \/ \E isNil \in BOOLEAN, pf \in BOOLEAN : RegisterShutdownHook(isNil, pf)
    \/ RunBegin
    \/ MainLoop
    \/ MainSpawnShutdown
    \/ MainSpawnSignal
    \/ \E i \in Idx : TaskCallStart(i)
    \/ \E i \in Idx : TaskStartReturns(i)
    \/ \E i \in Idx : TaskCancel(i)
    \/ \E i \in Idx : TaskReturnErr(i)
    \/ \E i \in Idx : TaskReturnNil(i)
    \/ ShutdownWake
    \/ ShutdownInspect
    \/ ShutdownStopReturns
    \/ ShutdownBeginHooks
    \/ ShutdownInspectHook
    \/ ShutdownHookReturns
    \/ ShutdownReturn
    \/ SignalNotify
    \/ SignalReceive
    \/ SignalReturnInterrupted
    \/ SignalCtxDone
    \/ MainWait
    \/ SignalArrives
    \/ CallerCancel

Spec == Init /\ [][Next]_vars

Returned == mainPc = "returned"

\* ---- vocabulary of the properties ----

Apps == {i \in Idx : ~IsHook(i)}
Hooks == {i \in Idx : IsHook(i)}

\* the signal goroutine took the branch  case <-ch
SignalConsumed == sigPc \in {"interrupted", "returnedInterrupted"}

\* Start of i has returned (with either outcome)
StartReturned(i) == startPc[i] \in {"failed", "cancelled", "marked", "done"}

\* no Start, Stop or hook that was called returns an error
NoCallFails ==
    \A i \in Idx : /\ startCalls[i] > 0 => ~apps[i].startErr
                   /\ stopCalls[i] > 0 => ~apps[i].stopErr

\* number of log events with the given message
Count(msg) == Cardinality({k \in DOMAIN log : log[k][1] = msg})

\* positions of stopOrder whose call returned an error
FailedStops == {k \in 1..stopReturned : apps[stopOrder[k]].stopErr}

\* the error of the last Stop / hook call that failed, Nil when none did
LastStopError ==
    IF FailedStops = {} THEN Nil
    ELSE StopError(stopOrder[CHOOSE k \in FailedStops :
                                 \A m \in FailedStops : m <= k])

\* the error values returned by Start, Stop and hook calls so far
ReturnedErrors ==
    {StartError(i) : i \in {j \in Idx : startPc[j] \in {"failed", "cancelled", "done"}
                                        /\ apps[j].startErr}}
    \cup {StopError(stopOrder[k]) : k \in FailedStops}

\* C1: when every Start and every Stop succeeds, Run returns nil, every
\* application's Start and Stop have each been called exactly once, and no
\* Stop is called before the Start of the same application has returned.
C1_AllSucceed ==
    (\A i \in 1..N : ~apps[i].startErr /\ ~apps[i].stopErr)
    => /\ \A i \in Apps : stopCalls[i] > 0 => StartReturned(i)
       /\ Returned => /\ result = Nil
                      /\ \A i \in Apps : startCalls[i] = 1 /\ stopCalls[i] = 1

\* C2: when exactly one Start fails, Run returns the error of that Start,
\* whatever Stop or hook errors and signals occur in the run.
C2_StartErrorReturned ==
    Returned =>
        \A i \in Apps :
            (apps[i].startErr /\ \A j \in Apps \ {i} : ~apps[j].startErr)
            => result = StartError(i)

\* C3: when no Start fails and some Stop or hook call fails, Run returns the
\* error of the last failing Stop / hook call.
C3_LastStopErrorReturned ==
    (Returned /\ (\A i \in Apps : ~apps[i].startErr) /\ LastStopError # Nil)
    => result = LastStopError

\* C4: a shutdown by a consumed signal without any failure returns nil and
\* logs "shutting down by signal" once and then "application was stopped"
\* once.
C4_SignalShutdown ==
    (Returned /\ SignalConsumed /\ NoCallFails)
    => /\ result = Nil
       /\ Count("shutting down by signal") = 1
       /\ Count("application was stopped") = 1
       /\ Len(log) >= 2
       /\ log[Len(log) - 1][1] = "shutting down by signal"
       /\ log[Len(log)][1] = "application was stopped"

C4_Witness ==
    /\ Returned /\ SignalConsumed /\ NoCallFails
    /\ \E i \in Apps : stopCalls[i] = 1

\* C5: when Run has returned, every registered shutdown hook has been called
\* exactly once.
C5_HooksOnce == Returned => \A h \in Hooks : stopCalls[h] = 1

C5_Witness ==
    /\ Returned /\ SignalConsumed
    /\ \E h \in Hooks : stopCalls[h] = 1
    /\ \E i \in Apps : stopCalls[i] = 1 /\ apps[i].stopErr

\* C6 (as stated): Stop and hook calls are never concurrent and follow the
\* registration order of the entries, hooks and applications alike.
C6_RegistrationOrder ==
    /\ Len(stopOrder) <= stopReturned + 1
    /\ \A p, q \in DOMAIN stopOrder : p < q => stopOrder[p] < stopOrder[q]

\* C6 (amended): Stop and hook calls are never concurrent; two applications
\* are stopped in registration order, two hooks are called in registration
\* order, and an application is stopped before any hook is called.
C6_TwoPhaseOrder ==
    /\ Len(stopOrder) <= stopReturned + 1
    /\ \A p, q \in DOMAIN stopOrder :
         p < q => IF IsHook(stopOrder[p]) = IsHook(stopOrder[q])
                  THEN stopOrder[p] < stopOrder[q]
                  ELSE IsHook(stopOrder[q])

C6_Witness ==
    /\ Len(stopOrder) = 2
    /\ stopReturned = 1
    /\ IsHook(stopOrder[2]) /\ ~IsHook(stopOrder[1])
    /\ stopOrder[2] < stopOrder[1]

\* C7: on a shutdown by signal, of two started applications the one
\* registered later is stopped first.
C7_ReverseOrder ==
    SignalConsumed =>
        \A p, q \in DOMAIN stopOrder :
            (p < q /\ ~IsHook(stopOrder[p]) /\ ~IsHook(stopOrder[q]))
            => stopOrder[p] > stopOrder[q]

\* C8: with one application whose Start and Stop succeed and no signal, Run
\* returns nil and the log is exactly: start application, application
\* started, stop application, application was stopped.
C8_ScenarioA ==
    (Returned /\ N = 1 /\ Apps = {1} /\ ~apps[1].startErr /\ ~apps[1].stopErr
     /\ sent = 0)
    => /\ result = Nil
       /\ log = <<LogEvent("start application", 1, Nil),
                  LogEvent("application started", 1, Nil),
                  LogEvent("stop application", 1, Nil),
                  LogEvent("application was stopped", 0, Nil)>>

\* C9: the result of Run is nil or an error value returned by a Start, Stop
\* or hook call of the run; it is never ErrInterruptedBySignal.
C9_ResultIsComponentError ==
    Returned => /\ result # ErrInterruptedBySignal
                /\ result = Nil \/ result \in ReturnedErrors

C9_Witness ==
    /\ Returned
    /\ egErr = ErrInterruptedBySignal
    /\ ReturnedErrors # {}

\* C10: a shutdown by the caller's context, with no signal consumed and no
\* failure, returns nil, logs "application was stopped" once and logs
\* neither "shutting down by signal" nor "terminating with error".
C10_CallerCancelled ==
    (Returned /\ callerDone /\ ~SignalConsumed /\ NoCallFails)
    => /\ result = Nil
       /\ Count("application was stopped") = 1
       /\ Count("shutting down by signal") = 0
       /\ Count("terminating with error") = 0

C10_Witness ==
    /\ Returned /\ callerDone /\ ~SignalConsumed /\ NoCallFails
    /\ \E i \in Apps : stopCalls[i] = 1

\* some Start has returned an error
StartFailed ==
    \E i \in Apps : apps[i].startErr /\ startPc[i] \in {"failed", "cancelled", "done"}

\* the shutdown goroutine has taken a step
ShutdownMoved == <<shPc, shIdx>>' # <<shPc, shIdx>>

\* C11: when Run returns, the Stop of an application has been called if and
\* only if its Start returned success (its started flag is set).
C11_StoppedIffStarted ==
    Returned => \A i \in Apps : stopCalls[i] > 0 <=> started[i]

\* C12: the Stop of an application is never called unless its Start has
\* already returned success.
C12_StopOnlyAfterStarted ==
    \A i \in Apps :
        stopCalls[i] > 0 => /\ startPc[i] \in {"marked", "done"}
                            /\ ~apps[i].startErr
                            /\ started[i]

C12_Witness ==
    /\ Returned
    /\ \E i \in Apps : stopCalls[i] = 0 /\ ~apps[i].startErr
    /\ \E i \in Apps : stopCalls[i] = 0 /\ apps[i].startErr

\* C13: when a failed start task cancels the shared context, every
\* application whose started flag was set before that cancellation has its
\* Stop called exactly once by the time Run returns.
C13_StartedBeforeFailureStopped ==
    (Returned /\ 0 \in atFailure)
    => \A i \in atFailure \ {0} : stopCalls[i] = 1

C13_Witness ==
    /\ Returned
    /\ 0 \in atFailure
    /\ atFailure # {0}
    /\ Cardinality({i \in Apps : apps[i].startErr}) = 1

\* C14: once the shared context is cancelled, no Start is invoked any more.
C14_NoStartAfterCancel == [][CtxDone => startCalls' = startCalls]_vars

\* C15: a failed Stop or hook does not cut the shutdown short: whatever
\* errors were returned before, the shutdown goroutine calls the Stop of
\* every entry it finds started, calls every hook, steps through both loops
\* one entry at a time and returns only at the end of the second loop.
C15_ShutdownNotCutShort ==
    [][ShutdownMoved =>
         /\ (shPc = "stops" /\ shIdx <= N)
              => IF started[shIdx]
                 THEN /\ shPc' = "inStop" /\ shIdx' = shIdx
                      /\ stopCalls'[shIdx] = stopCalls[shIdx] + 1
                 ELSE shPc' = "stops" /\ shIdx' = shIdx + 1
         /\ (shPc = "hooks" /\ shIdx <= N)
              => IF IsHook(shIdx)
                 THEN /\ shPc' = "inHook" /\ shIdx' = shIdx
                      /\ stopCalls'[shIdx] = stopCalls[shIdx] + 1
                 ELSE shPc' = "hooks" /\ shIdx' = shIdx + 1
         /\ shPc = "inStop" => shPc' = "stops" /\ shIdx' = shIdx + 1
         /\ shPc = "inHook" => shPc' = "hooks" /\ shIdx' = shIdx + 1
         /\ shPc' = "done" => shPc = "hooks" /\ shIdx > N
         /\ shPc' = "hooks" => shPc \in {"inHook", "hooks"} \/ shIdx > N
    ]_vars

C15_Witness ==
    /\ Returned
    /\ \E k \in FailedStops : k < Len(stopOrder)

\* C16: a hook is called only after every Stop call of an application has
\* returned, wherever the hook is registered, and no application is stopped
\* after a hook was called; within the applications and within the hooks
\* the calls follow registration order.
C16_HooksAfterStops ==
    \A q \in DOMAIN stopOrder :
        /\ IsHook(stopOrder[q])
             => \A i \in Apps :
                  stopCalls[i] > 0
                  => \E p \in 1..(q - 1) : stopOrder[p] = i /\ p <= stopReturned
        /\ \A p \in 1..(q - 1) :
             IsHook(stopOrder[p]) = IsHook(stopOrder[q])
             => stopOrder[p] < stopOrder[q]

C16_Witness ==
    /\ Returned
    /\ Len(stopOrder) >= 2
    /\ \E h \in Hooks, i \in Apps : h < i /\ stopCalls[h] = 1 /\ stopCalls[i] = 1

\* C18: no Stop or hook is called and Run does not return unless a Start has
\* failed, a signal has been consumed or the caller's context is cancelled.
C18_NoShutdownWithoutTrigger ==
    (stopOrder # <<>> \/ shPc \notin {"none", "waiting"} \/ Returned)
    => (StartFailed \/ SignalConsumed \/ callerDone)

C18_Witness ==
    /\ stopOrder # <<>>
    /\ ~Returned
    /\ StartFailed /\ ~SignalConsumed /\ ~callerDone

\* C19: a run that returns has logged exactly one terminal event, as its
\* last event: "application was stopped" exactly when the result is nil,
\* "terminating with error" with the returned error exactly when it is not.
C19_OneTerminalEvent ==
    Returned =>
        /\ Len(log) >= 1
        /\ Count("application was stopped") + Count("terminating with error") = 1
        /\ result = Nil
             <=> log[Len(log)] = LogEvent("application was stopped", 0, Nil)
        /\ result # Nil
             <=> log[Len(log)] = LogEvent("terminating with error", 0, result)

C19_Witness ==
    /\ Returned
    /\ result # Nil
    /\ Count("application stop error") >= 1

\* C20: in every state every Start has been called at most once and every
\* Stop and hook at most once.
C20_AtMostOnce ==
    \A i \in Idx : startCalls[i] <= 1 /\ stopCalls[i] <= 1

C20_Witness ==
    /\ Returned
    /\ SignalConsumed /\ callerDone
    /\ \E i \in Apps : startCalls[i] = 1 /\ stopCalls[i] = 1
    /\ \E h \in Hooks : stopCalls[h] = 1

\* ---- liveness ----

\* The steps of the goroutines of Run (everything but registration and the
\* environment).
GoroutineStep ==
    \/ MainLoop
    \/ MainSpawnShutdown
    \/ MainSpawnSignal
    \/ MainWait
    \/ \E i \in Idx : TaskCallStart(i)
    \/ \E i \in Idx : TaskStartReturns(i)
    \/ \E i \in Idx : TaskCancel(i)
    \/ \E i \in Idx : TaskReturnErr(i)
    \/ \E i \in Idx : TaskReturnNil(i)
    \/ ShutdownWake
    \/ ShutdownInspect
    \/ ShutdownStopReturns
    \/ ShutdownBeginHooks
    \/ ShutdownInspectHook
    \/ ShutdownHookReturns
    \/ ShutdownReturn
    \/ SignalNotify
    \/ SignalReceive
    \/ SignalReturnInterrupted
    \/ SignalCtxDone

\* A runner constructed with a logger that discards its calls.  No step of
\* Run reads anything a logger call produces, so the runs differ from those
\* of Init in the variable log only.
QuietInit == New("discarding")

\* The Go scheduler runs every runnable goroutine, and every Start, Stop and
\* hook call returns: a goroutine step that stays enabled is eventually taken.
\* No goroutine step disables a step of another goroutine, so weak fairness
\* of their disjunction gives every goroutine its turn.
LiveSpec == QuietInit /\ [][Next]_vars /\ WF_vars(GoroutineStep)

\* a shutdown trigger has occurred: the shared context is done or a signal
\* has been delivered to the subscribed process
ShutdownTriggered == CtxDone \/ sent > 0

\* C17: with every goroutine scheduled and every Start, Stop and hook call
\* returning, Run returns once a shutdown trigger has occurred; and Run
\* returns only after every start task, the shutdown goroutine (all Stop and
\* hook calls finished) and the signal goroutine have completed.
C17_ReturnsAfterAllTasks ==
    /\ ShutdownTriggered ~> Returned
    /\ [](Returned => /\ \A i \in Apps : startPc[i] = "done"
                      /\ shPc = "done"
                      /\ stopReturned = Len(stopOrder)
                      /\ sigPc \in {"returnedInterrupted", "returnedNil"})

C17_Witness ==
    /\ Returned
    /\ ShutdownTriggered
    /\ \E i \in Apps : stopCalls[i] = 1
    /\ stopReturned = Len(stopOrder)

====
